---- MODULE Spec2Model ----
(***************************************************************************)
(* The SNGAN generator graph builder (generator.py).                       *)
(*                                                                         *)
(* A tensor is a record [shape, sym, data, vals, op]:                      *)
(*   shape  the static shape, a sequence of dimensions;                    *)
(*   sym    TRUE for a tensor whose elements depend on learned weights     *)
(*          (only its shape and the set of values an element may take are  *)
(*          known), FALSE for a tensor with concrete elements;             *)
(*   data   the elements in row-major order, a function on 0..N-1          *)
(*          (<<>> when sym);                                               *)
(*   vals   the set of values an element may take, in hundredths;          *)
(*   op     the graph operation that produced the tensor.                  *)
(* An exception is a record [raised, why]; it propagates through every     *)
(* later operation of the same call.  The default graph is a record        *)
(* [vars, nodes, scope, reuse]: the variable store, the operations added   *)
(* so far, and the current variable scope with its reuse mode.  Every      *)
(* graph-building call takes the graph and returns [t, g].                 *)
(***************************************************************************)
EXTENDS Integers, Sequences, FiniteSets, TLC

VARIABLES x, y, last, pc, zs, target_class, gf_dim, num_classes, act, g, calls, first, firstVars, mark

vars == <<x, y, last, pc, zs, target_class, gf_dim, num_classes, act, g, calls, first, firstVars, mark>>

\* ---------------------------------------------------------------- bounds

MaxElems == 6
MaxScale == 4
MaxOut == 2
MaxBatch == 2
MaxNoise == 2
MaxGf == 2
MaxClasses == 2
MaxCalls == 2

\* Element values, in hundredths: -10.0, -1.0, -0.5, 0, 0.5, 1.0, 10.0.
Vals == {-1000, -100, -50, 0, 50, 100, 1000}

\* Concrete test images are binary.
Pixels == {0, 1}

\* ---------------------------------------------------------------- tensors

IsError(t) == "raised" \in DOMAIN t

Error(origin, why) == [raised |-> origin, why |-> why]

None == [none |-> TRUE]

RECURSIVE Prod(_)
Prod(s) == IF s = <<>> THEN 1 ELSE Head(s) * Prod(Tail(s))

Size(t) == Prod(t.shape)

Max(a, b) == IF a >= b THEN a ELSE b

Min(a, b) == IF a <= b THEN a ELSE b

\* Row-major offset of element [b, i, j, c] of a 4D tensor of shape s.
Flat(s, b, i, j, c) == ((b * s[2] + i) * s[3] + j) * s[4] + c

\* The index [b, i, j, c] of row-major offset k in shape s.
Unflat(s, k) ==
  <<k \div (s[2] * s[3] * s[4]), (k \div (s[3] * s[4])) % s[2], (k \div s[4]) % s[3], k % s[4]>>

At(t, b, i, j, c) == t.data[Flat(t.shape, b, i, j, c)]

\* The element of a one-element set.  Only({F(v) : v \in {e}}) is F applied to
\* the value of e: e is evaluated once, as a Python statement evaluates its
\* right-hand side once before binding the name.
Only(S) == CHOOSE r \in S : TRUE

Symbolic(shape, vals, op) ==
  [shape |-> shape, sym |-> TRUE, data |-> <<>>, vals |-> vals, op |-> op]

EmptyGraph == [vars |-> {}, nodes |-> <<>>, scope |-> <<>>, reuse |-> "NONE"]

\* A node of the graph is named by the variable scope it was added in and its type.
AddNode(gr, op) == [gr EXCEPT !.nodes = Append(@, [scope |-> gr.scope, op |-> op])]

\* ------------------------------------------------- TensorFlow primitives

\* tf.tile(x, multiples): output[b,i,j,c] = x[b % B, i % H, j % W, c % C].
Tile(t, multiples, gr) ==
  IF IsError(t) THEN [t |-> t, g |-> gr]
  ELSE IF \E d \in 1..4 : multiples[d] < 0
  THEN [t |-> Error("tf.tile", "negative multiple"), g |-> gr]
  ELSE LET s == [d \in 1..4 |-> t.shape[d] * multiples[d]]
           n == Prod(s)
       IN [t |-> [shape |-> s, sym |-> t.sym,
                  data |-> IF t.sym THEN <<>>
                           ELSE [k \in 0..(n - 1) |->
                                   LET ix == Unflat(s, k)
                                   IN At(t, ix[1] % t.shape[1], ix[2] % t.shape[2],
                                            ix[3] % t.shape[3], ix[4] % t.shape[4])],
                  vals |-> IF n = 0 THEN {} ELSE t.vals, op |-> "Tile"],
           g |-> AddNode(gr, "Tile")]

\* tf.batch_to_space(input, crops, block_size): the batch is reshaped to
\* [block, block, B / block^2], moved into the spatial dimensions, then cropped.
BatchToSpace(t, crops, block_size, gr) ==
  IF IsError(t) THEN [t |-> t, g |-> gr]
  ELSE IF block_size < 2
  THEN [t |-> Error("tf.batch_to_space", "block_size must be at least 2"), g |-> gr]
  ELSE IF t.shape[1] % (block_size * block_size) # 0
  THEN [t |-> Error("tf.batch_to_space", "batch not divisible by block_size^2"), g |-> gr]
  ELSE LET bo == t.shape[1] \div (block_size * block_size)
           s == <<bo, t.shape[2] * block_size - crops[1][1] - crops[1][2],
                  t.shape[3] * block_size - crops[2][1] - crops[2][2], t.shape[4]>>
           n == Prod(s)
       IN [t |-> [shape |-> s, sym |-> t.sym,
                  data |-> IF t.sym THEN <<>>
                           ELSE [k \in 0..(n - 1) |->
                                   LET ix == Unflat(s, k)
                                       yy == ix[2] + crops[1][1]
                                       xx == ix[3] + crops[2][1]
                                   IN At(t, ((yy % block_size) * block_size + (xx % block_size)) * bo + ix[1],
                                            yy \div block_size, xx \div block_size, ix[4])],
                  vals |-> t.vals, op |-> "BatchToSpace"],
           g |-> AddNode(gr, "BatchToSpace")]

\* tf.image.resize_nearest_neighbor(x, size) with align_corners=False:
\* output[b,i,j,c] = x[b, min(floor(i * H / oh), H - 1), min(floor(j * W / ow), W - 1), c].
ResizeNearestNeighbor(t, size, gr) ==
  IF IsError(t) THEN [t |-> t, g |-> gr]
  ELSE IF size[1] <= 0 \/ size[2] <= 0
  THEN [t |-> Error("tf.image.resize_nearest_neighbor", "output size must be positive"), g |-> gr]
  ELSE LET s == <<t.shape[1], size[1], size[2], t.shape[4]>>
           n == Prod(s)
       IN [t |-> [shape |-> s, sym |-> t.sym,
                  data |-> IF t.sym THEN <<>>
                           ELSE [k \in 0..(n - 1) |->
                                   LET ix == Unflat(s, k)
                                   IN At(t, ix[1],
                                            Min((ix[2] * t.shape[2]) \div size[1], t.shape[2] - 1),
                                            Min((ix[3] * t.shape[3]) \div size[2], t.shape[3] - 1),
                                            ix[4])],
                  vals |-> t.vals, op |-> "ResizeNearestNeighbor"],
           g |-> AddNode(gr, "ResizeNearestNeighbor")]

\* ---------------------------------------------------------------- upscale

upscaleValidated(t, n, gr) ==
  IF n = 1 THEN [t |-> t, g |-> gr]
  ELSE IF n \notin {2, 4, 8}
  THEN [t |-> Error("generator.py", "n must be a power of 2"), g |-> gr]
  ELSE Only({BatchToSpace(tiled.t, <<<<0, 0>>, <<0, 0>>>>, n, tiled.g) :
               tiled \in {Tile(t, <<n * n, 1, 1, 1>>, gr)}})

upscaleTiled(t, n, gr) ==
  IF n = 1 THEN [t |-> t, g |-> gr]
  ELSE Tile(t, <<1, n, n, 1>>, gr)

upscaleAlways(t, n, gr) ==
  Only({BatchToSpace(tiled.t, <<<<0, 0>>, <<0, 0>>>>, n, tiled.g) :
          tiled \in {Tile(t, <<n * n, 1, 1, 1>>, gr)}})

upscale(t, n, gr) ==
  IF n = 1 THEN [t |-> t, g |-> gr]
  ELSE Only({BatchToSpace(tiled.t, <<<<0, 0>>, <<0, 0>>>>, n, tiled.g) :
               tiled \in {Tile(t, <<n * n, 1, 1, 1>>, gr)}})

usample_tpu(t, gr) == upscale(t, 2, gr)

usampleWidthOnly(t, gr) ==
  IF IsError(t) THEN [t |-> t, g |-> gr]
  ELSE ResizeNearestNeighbor(t, <<t.shape[2], t.shape[3] * 2>>, gr)

usample(t, gr) ==
  IF IsError(t) THEN [t |-> t, g |-> gr]
  ELSE LET nh == t.shape[2]
           nw == t.shape[3]
       IN ResizeNearestNeighbor(t, <<nh * 2, nw * 2>>, gr)

\* ------------------------------------------- more TensorFlow primitives

Relu(t, gr) ==
  IF IsError(t) THEN [t |-> t, g |-> gr]
  ELSE [t |-> [t EXCEPT !.vals = {Max(0, v) : v \in t.vals}, !.op = "Relu",
                        !.data = IF t.sym THEN <<>> ELSE [k \in DOMAIN t.data |-> Max(0, t.data[k])]],
        g |-> AddNode(gr, "Relu")]

\* tanh in hundredths, as float32 rounds it: tanh(0.5) = 0.46, tanh(1) = 0.76,
\* tanh(10) = 1.0 (the float nearest to 1 - 4e-9 is 1).
TanhOf(v) ==
  CASE v = 0 -> 0
    [] v = 50 -> 46
    [] v = 100 -> 76
    [] v = 1000 -> 100
    [] v = -50 -> -46
    [] v = -100 -> -76
    [] v = -1000 -> -100

Tanh(t, gr) ==
  IF IsError(t) THEN [t |-> t, g |-> gr]
  ELSE [t |-> [t EXCEPT !.vals = {TanhOf(v) : v \in t.vals}, !.op = "Tanh",
                        !.data = IF t.sym THEN <<>> ELSE [k \in DOMAIN t.data |-> TanhOf(t.data[k])]],
        g |-> AddNode(gr, "Tanh")]

\* tf.reshape(x, shape): at most one dimension of shape is -1 and is inferred.
Reshape(t, shape, gr) ==
  IF IsError(t) THEN [t |-> t, g |-> gr]
  ELSE LET known == Prod([d \in DOMAIN shape |-> IF shape[d] = -1 THEN 1 ELSE shape[d]])
           holes == {d \in DOMAIN shape : shape[d] = -1}
       IN IF Cardinality(holes) > 1 \/ known <= 0 \/ Size(t) % known # 0
             \/ (holes = {} /\ known # Size(t))
          THEN [t |-> Error("tf.reshape", "cannot reshape"), g |-> gr]
          ELSE [t |-> [t EXCEPT !.shape = [d \in DOMAIN shape |->
                                            IF shape[d] = -1 THEN Size(t) \div known ELSE shape[d]],
                                !.op = "Reshape"],
                g |-> AddNode(gr, "Reshape")]

\* Two dimensions broadcast when they are equal or one of them is 1.
Broadcasts(s1, s2) ==
  /\ Len(s1) = Len(s2)
  /\ \A d \in DOMAIN s1 : s1[d] = s2[d] \/ s1[d] = 1 \/ s2[d] = 1

\* a + b on tensors (tf.add, with broadcasting); the operands here are symbolic.
Add(a, b, gr) ==
  IF IsError(a) THEN [t |-> a, g |-> gr]
  ELSE IF IsError(b) THEN [t |-> b, g |-> gr]
  ELSE IF ~Broadcasts(a.shape, b.shape)
  THEN [t |-> Error("tf.add", "incompatible shapes"), g |-> gr]
  ELSE [t |-> Symbolic([d \in DOMAIN a.shape |-> Max(a.shape[d], b.shape[d])],
                       {u + v : u \in a.vals, v \in b.vals}, "Add"),
        g |-> AddNode(gr, "Add")]

\* with tf.variable_scope(name, reuse=reuse): the scope is nested in the current
\* one; reuse=None inherits the enclosing scope's mode.
VariableScope(gr, name, reuse) ==
  [gr EXCEPT !.scope = Append(@, name),
             !.reuse = IF reuse = "NONE" THEN gr.reuse ELSE reuse]

\* Leaving the with block restores the scope and reuse mode it was entered from.
ExitScope(gr, outer) == [gr EXCEPT !.scope = outer.scope, !.reuse = outer.reuse]

\* tf.get_variable(name, shape) in the current scope: [err, g].
GetVariable(gr, name, shape) ==
  LET path == Append(gr.scope, name)
      found == {v \in gr.vars : v.name = path}
  IN IF found = {}
     THEN IF gr.reuse = "TRUE"
          THEN [err |-> "variable does not exist", g |-> gr]
          ELSE [err |-> "", g |-> [gr EXCEPT !.vars = @ \cup {[name |-> path, shape |-> shape]}]]
     ELSE IF gr.reuse = "NONE"
          THEN [err |-> "variable already exists", g |-> gr]
          ELSE IF \E v \in found : v.shape # shape
          THEN [err |-> "shape mismatch on shared variable", g |-> gr]
          ELSE [err |-> "", g |-> gr]

\* --------------------------------------------------------- the ops module

\* A layer with one weight in its own variable scope: the common part of
\* ops.linear, ops.conv2d and the two batch norms.
Layer(t, name, wshape, oshape, op, gr) ==
  LET inner == VariableScope(gr, name, "NONE")
      got == GetVariable(inner, "w", wshape)
  IN IF got.err # ""
     THEN [t |-> Error("tf.get_variable", got.err), g |-> ExitScope(got.g, gr)]
     ELSE [t |-> Symbolic(oshape, Vals, op), g |-> ExitScope(AddNode(got.g, op), gr)]

\* ops.linear(x, output_size, name): [B, D] -> [B, output_size].
linear(t, output_size, name, gr) ==
  IF IsError(t) THEN [t |-> t, g |-> gr]
  ELSE IF Len(t.shape) # 2
  THEN [t |-> Error("ops.linear", "input must be 2D"), g |-> gr]
  ELSE Layer(t, name, <<t.shape[2], output_size>>, <<t.shape[1], output_size>>, "linear", gr)

\* ops.conv2d(x, output_dim, k_h, k_w, d_h, d_w, name), SAME padding:
\* [B, H, W, Cin] -> [B, ceil(H / d_h), ceil(W / d_w), output_dim].
conv2d(t, output_dim, k_h, k_w, d_h, d_w, name, gr) ==
  IF IsError(t) THEN [t |-> t, g |-> gr]
  ELSE IF Len(t.shape) # 4
  THEN [t |-> Error("ops.conv2d", "input must be 4D"), g |-> gr]
  ELSE Layer(t, name, <<k_h, k_w, t.shape[4], output_dim>>,
             <<t.shape[1], (t.shape[2] + d_h - 1) \div d_h, (t.shape[3] + d_w - 1) \div d_w, output_dim>>,
             "conv2d", gr)

\* ops.ConditionalBatchNorm(num_classes, name)(x, labels): per-class scale and
\* shift of shape [num_classes, C]; the output has the shape of x.
ConditionalBatchNorm(nc, name, t, labels, gr) ==
  IF IsError(t) THEN [t |-> t, g |-> gr]
  ELSE Layer(t, name, <<nc, t.shape[Len(t.shape)]>>, t.shape, "ConditionalBatchNorm", gr)

\* ops.BatchNorm(name)(x): scale and shift of shape [C]; the output has the shape of x.
BatchNorm(name, t, gr) ==
  IF IsError(t) THEN [t |-> t, g |-> gr]
  ELSE Layer(t, name, <<t.shape[Len(t.shape)]>>, t.shape, "BatchNorm", gr)

\* ------------------------------------------------------------------ block

blockLocalsNoShortcutUpsample(t, labels, out_channels, nc, name, gr) ==
  LET sc == VariableScope(gr, name, "NONE")
      a1 == ConditionalBatchNorm(nc, "cbn_0", t, labels, sc)
      a2 == Only({Relu(r.t, r.g) : r \in {a1}})
      a3 == Only({usample(r.t, r.g) : r \in {a2}})
      a4 == Only({conv2d(r.t, out_channels, 3, 3, 1, 1, "conv1", r.g) : r \in {a3}})
      a5 == Only({ConditionalBatchNorm(nc, "cbn_1", r.t, labels, r.g) : r \in {a4}})
      a6 == Only({Relu(r.t, r.g) : r \in {a5}})
      a7 == Only({conv2d(r.t, out_channels, 3, 3, 1, 1, "conv2", r.g) : r \in {a6}})
      s1 == Only({IF IsError(r.t) THEN r ELSE [t |-> t, g |-> r.g] : r \in {a7}})
      s2 == Only({conv2d(r.t, out_channels, 1, 1, 1, 1, "conv3", r.g) : r \in {s1}})
  IN [x |-> a7.t, x_0 |-> s2.t, g |-> s2.g]

\* The locals x and x_0 of block, and the graph, when line 73 is reached; an
\* exception raised on the way is the value of both.
blockLocals(t, labels, out_channels, nc, name, gr) ==
  LET sc == VariableScope(gr, name, "NONE")
      a1 == ConditionalBatchNorm(nc, "cbn_0", t, labels, sc)
      a2 == Only({Relu(r.t, r.g) : r \in {a1}})
      a3 == Only({usample(r.t, r.g) : r \in {a2}})
      a4 == Only({conv2d(r.t, out_channels, 3, 3, 1, 1, "conv1", r.g) : r \in {a3}})
      a5 == Only({ConditionalBatchNorm(nc, "cbn_1", r.t, labels, r.g) : r \in {a4}})
      a6 == Only({Relu(r.t, r.g) : r \in {a5}})
      a7 == Only({conv2d(r.t, out_channels, 3, 3, 1, 1, "conv2", r.g) : r \in {a6}})
      s1 == Only({IF IsError(r.t) THEN r ELSE usample(t, r.g) : r \in {a7}})
      s2 == Only({conv2d(r.t, out_channels, 1, 1, 1, 1, "conv3", r.g) : r \in {s1}})
  IN [x |-> a7.t, x_0 |-> s2.t, g |-> s2.g]

block(t, labels, out_channels, nc, name, gr) ==
  LET sum == Only({Add(l.x_0, l.x, l.g) : l \in {blockLocals(t, labels, out_channels, nc, name, gr)}})
  IN Only({[t |-> r.t, g |-> ExitScope(r.g, gr)] : r \in {sum}})

\* -------------------------------------------------------------- generator

GeneratorScope == "Generator"

GeneratorReuseNone == "NONE"

GeneratorReuse == "AUTO_REUSE"

g_h0(z, gf, gr) == linear(z, gf * 16 * 4 * 4, "g_h0", gr)

g_reshapeHalf(a, gf, gr) == Reshape(a, <<-1, 4, 4, gf * 8>>, gr)

g_reshape(a, gf, gr) == Reshape(a, <<-1, 4, 4, gf * 16>>, gr)

BlockName(k) ==
  CASE k = 1 -> "g_block1" [] k = 2 -> "g_block2" [] k = 3 -> "g_block3"
    [] k = 4 -> "g_block4" [] k = 5 -> "g_block5"

BlockChannelsSwapped(k, gf) ==
  CASE k = 1 -> gf * 16 [] k = 2 -> gf * 4 [] k = 3 -> gf * 8 [] k = 4 -> gf * 2 [] k = 5 -> gf

BlockChannels(k, gf) ==
  CASE k = 1 -> gf * 16 [] k = 2 -> gf * 8 [] k = 3 -> gf * 4 [] k = 4 -> gf * 2 [] k = 5 -> gf

g_block(k, a, labels, gf, nc, gr) ==
  block(a, labels, BlockChannels(k, gf), nc, BlockName(k), gr)

\* bn = ops.BatchNorm(name='g_bn'); act5 = tf.nn.relu(bn(act5))
g_bn_relu(a, gr) == Only({Relu(n.t, n.g) : n \in {BatchNorm("g_bn", a, gr)}})

g_conv_last(a, gr) == conv2d(a, 3, 3, 3, 1, 1, "g_conv_last", gr)

g_outNoTanh(a, gr) == [t |-> a, g |-> gr]

g_out(a, gr) == Tanh(a, gr)

\* The statement that follows each statement of generator.
NextPc(p) ==
  CASE p = "g_h0" -> "reshape"
    [] p = "reshape" -> "g_block1"
    [] p = "g_block1" -> "g_block2"
    [] p = "g_block2" -> "g_block3"
    [] p = "g_block3" -> "g_block4"
    [] p = "g_block4" -> "g_block5"
    [] p = "g_block5" -> "g_bn"
    [] p = "g_bn" -> "g_conv_last"
    [] p = "g_conv_last" -> "tanh"
    [] p = "tanh" -> "return"

\* ----------------------------------------------- building the generator

Root == [scope |-> <<>>, reuse |-> "NONE"]

Image0 ==
  [shape |-> <<1, 1, 1, 1>>, sym |-> FALSE, data |-> [k \in {0} |-> 0], vals |-> {0},
   op |-> "Placeholder"]

NoCall == [op |-> "none", n |-> 0, out_channels |-> 0, num_classes |-> 0]

OpsIdle == x = Image0 /\ y = None /\ last = NoCall

Init ==
  /\ OpsIdle
  /\ pc = "idle"
  /\ zs = None
  /\ target_class = None
  /\ gf_dim = 0
  /\ num_classes = 0
  /\ act = None
  /\ g = EmptyGraph
  /\ calls = 0
  /\ first = None
  /\ firstVars = {}
  /\ mark = 0

\* generator(zs, target_class, gf_dim, num_classes) is called and enters
\* with tf.variable_scope(scope, reuse=tf.AUTO_REUSE).
Call ==
  /\ pc \in {"idle", "done", "raised"}
  /\ calls < MaxCalls
  /\ \E b \in 1..MaxBatch, d \in 1..MaxNoise, gf \in 1..MaxGf, nc \in 1..MaxClasses :
       /\ zs' = Symbolic(<<b, d>>, Vals, "Placeholder")
       /\ target_class' = Symbolic(<<b>>, 0..(nc - 1), "Placeholder")
       /\ gf_dim' = gf
       /\ num_classes' = nc
       /\ first' = IF calls = 0 THEN [noise |-> d, gf_dim |-> gf, num_classes |-> nc] ELSE first
  /\ g' = VariableScope(g, GeneratorScope, GeneratorReuse)
  /\ mark' = Len(g.nodes)
  /\ act' = None
  /\ calls' = calls + 1
  /\ pc' = "g_h0"
  /\ UNCHANGED <<x, y, last, firstVars>>

\* One statement has run with result res: go on, or leave the with block by the
\* exception it raised.
Step(res) ==
  \E r \in {res} :
  /\ act' = r.t
  /\ IF IsError(r.t)
     THEN pc' = "raised" /\ g' = ExitScope(r.g, Root)
     ELSE pc' = NextPc(pc) /\ g' = r.g
  /\ UNCHANGED <<x, y, last, zs, target_class, gf_dim, num_classes, calls, first, firstVars, mark>>

G_h0 == pc = "g_h0" /\ Step(g_h0(zs, gf_dim, g))

G_reshape == pc = "reshape" /\ Step(g_reshape(act, gf_dim, g))

G_block ==
  \E k \in 1..5 :
    /\ pc = BlockName(k)
    /\ Step(g_block(k, act, target_class, gf_dim, num_classes, g))

G_bn == pc = "g_bn" /\ Step(g_bn_relu(act, g))

G_conv_last == pc = "g_conv_last" /\ Step(g_conv_last(act, g))

G_out == pc = "tanh" /\ Step(g_out(act, g))

\* return out: the with block is left.
Return ==
  /\ pc = "return"
  /\ pc' = "done"
  /\ g' = ExitScope(g, Root)
  /\ firstVars' = IF calls = 1 THEN g.vars ELSE firstVars
  /\ UNCHANGED <<x, y, last, zs, target_class, gf_dim, num_classes, act, calls, first, mark>>

Next == Call \/ G_h0 \/ G_reshape \/ G_block \/ G_bn \/ G_conv_last \/ G_out \/ Return

Spec == Init /\ [][Next]_vars

\* ------------------------------------ the upsampling functions and block

Range(f) == {f[k] : k \in DOMAIN f}

Shapes4 ==
  {s \in (1..MaxElems) \X (1..MaxElems) \X (1..MaxElems) \X (1..MaxElems) : Prod(s) <= MaxElems}

Images ==
  UNION {{[shape |-> s, sym |-> FALSE, data |-> d, vals |-> Range(d), op |-> "Placeholder"] :
            d \in [0..(Prod(s) - 1) -> Pixels]} : s \in Shapes4}

Scales == (-1)..MaxScale

GenIdle ==
  /\ pc = "idle" /\ zs = None /\ target_class = None /\ gf_dim = 0 /\ num_classes = 0
  /\ act = None /\ g = EmptyGraph /\ calls = 0 /\ first = None /\ firstVars = {} /\ mark = 0

genVars == <<pc, zs, target_class, gf_dim, num_classes, act, g, calls, first, firstVars, mark>>

InitOps ==
  /\ x \in Images
  /\ y = None
  /\ last = NoCall
  /\ GenIdle

Upscale ==
  /\ last = NoCall
  /\ \E n \in Scales :
       /\ y' = upscale(x, n, EmptyGraph)
       /\ last' = [NoCall EXCEPT !.op = "upscale", !.n = n]
  /\ UNCHANGED <<x, genVars>>

UsampleTpu ==
  /\ last = NoCall
  /\ y' = usample_tpu(x, EmptyGraph)
  /\ last' = [NoCall EXCEPT !.op = "usample_tpu"]
  /\ UNCHANGED <<x, genVars>>

Usample ==
  /\ last = NoCall
  /\ y' = usample(x, EmptyGraph)
  /\ last' = [NoCall EXCEPT !.op = "usample"]
  /\ UNCHANGED <<x, genVars>>

Block ==
  /\ last = NoCall
  /\ \E oc \in 1..MaxOut, nc \in 1..MaxClasses :
       /\ y' = block(x, Symbolic(<<x.shape[1]>>, 0..(nc - 1), "Placeholder"), oc, nc, "g_block1", EmptyGraph)
       /\ last' = [NoCall EXCEPT !.op = "block", !.out_channels = oc, !.num_classes = nc]
  /\ UNCHANGED <<x, genVars>>

NextOps == Upscale \/ UsampleTpu \/ Usample \/ Block

SpecOps == InitOps /\ [][NextOps]_vars

\* ================================================================ claims

Batch == zs.shape[1]

\* The stage a node belongs to: the layer scope under the generator's scope, or
\* the node's type for an operation added directly in the generator's scope.
StageOf(node) == IF Len(node.scope) >= 2 THEN node.scope[2] ELSE node.op

RECURSIVE Stages(_, _)
Stages(nodes, k) ==
  IF k > Len(nodes) THEN <<>>
  ELSE IF k < Len(nodes) /\ StageOf(nodes[k]) = StageOf(nodes[k + 1]) THEN Stages(nodes, k + 1)
  ELSE <<StageOf(nodes[k])>> \o Stages(nodes, k + 1)

\* The stages of the call in progress, in the order their nodes were added.
CallStages == Stages(g.nodes, mark + 1)

ExpectedStages ==
  <<"g_h0", "Reshape", "g_block1", "g_block2", "g_block3", "g_block4", "g_block5",
    "g_bn", "Relu", "g_conv_last", "Tanh">>

IsPrefix(a, b) == Len(a) <= Len(b) /\ a = SubSeq(b, 1, Len(a))

IsPow2(n) == \E k \in 1..n : 2 ^ k = n

\* Every element of the 4D tensor out is the element of inp at the same batch
\* entry and channel and at row and column divided by n.
IsBoxUpscale(out, inp, n) ==
  /\ out.shape = <<inp.shape[1], n * inp.shape[2], n * inp.shape[3], inp.shape[4]>>
  /\ \A b \in 0..(inp.shape[1] - 1), i \in 0..(n * inp.shape[2] - 1),
        j \in 0..(n * inp.shape[3] - 1), c \in 0..(inp.shape[4] - 1) :
        At(out, b, i, j, c) = At(inp, b, i \div n, j \div n, c)

NodeOps(nodes) == [k \in DOMAIN nodes |-> nodes[k].op]

\* C1: every call of generator that returns, returns a tensor of shape
\* [B, 128, 128, 3] for the batch size B of its noise, whatever gf_dim, the noise
\* width and num_classes are; the first call on a fresh graph always returns.
C1_OutputShape ==
  /\ pc = "done" => ~IsError(act) /\ act.shape = <<Batch, 128, 128, 3>>
  /\ calls = 1 => pc # "raised"

C1_Witness ==
  /\ pc = "done" /\ Batch = 2 /\ gf_dim = 2 /\ num_classes = 2 /\ zs.shape[2] = 2
  /\ act.shape = <<2, 128, 128, 3>>

\* C2: the five blocks run in the order g_block1..g_block5, each on the output of
\* the one before: the activation entering block k has spatial size 4, 8, 16, 32, 64
\* and gf_dim*16, *16, *8, *4, *2 channels, the one leaving g_block5 is 128 x 128
\* with gf_dim channels; the stages of a call are added to the graph in the order
\* projection, reshape, blocks 1 to 5, batch norm, relu, last convolution, tanh.
C2_BlockOrder ==
  /\ pc = "g_block1" => act.shape = <<Batch, 4, 4, gf_dim * 16>>
  /\ pc = "g_block2" => act.shape = <<Batch, 8, 8, gf_dim * 16>>
  /\ pc = "g_block3" => act.shape = <<Batch, 16, 16, gf_dim * 8>>
  /\ pc = "g_block4" => act.shape = <<Batch, 32, 32, gf_dim * 4>>
  /\ pc = "g_block5" => act.shape = <<Batch, 64, 64, gf_dim * 2>>
  /\ pc = "g_bn" => act.shape = <<Batch, 128, 128, gf_dim>>
  /\ pc # "idle" => IsPrefix(CallStages, ExpectedStages)
  /\ pc = "g_bn" => CallStages = SubSeq(ExpectedStages, 1, 7)
  /\ pc = "done" => CallStages = ExpectedStages

C2_Witness ==
  /\ pc = "done" /\ gf_dim = 2 /\ calls = 2
  /\ CallStages = ExpectedStages

\* C3: for a scale n >= 2 that is a power of 2, upscale(x, n) has shape
\* [B, n*H, n*W, C] and its element [b, i, j, c] is x[b, i div n, j div n, c].
C3_UpscaleIsBox ==
  (last.op = "upscale" /\ last.n >= 2 /\ IsPow2(last.n)) =>
    ~IsError(y.t) /\ IsBoxUpscale(y.t, x, last.n)

C3_Witness ==
  /\ last.op = "upscale" /\ last.n = 4
  /\ x.shape = <<2, 1, 2, 1>> /\ x.data[0] # x.data[1] /\ x.data[0] # x.data[2]
  /\ y.t.shape = <<2, 4, 8, 1>>

FrameworkOrigins ==
  {"tf.tile", "tf.batch_to_space", "tf.image.resize_nearest_neighbor", "tf.reshape", "tf.add",
   "tf.get_variable", "ops.linear", "ops.conv2d"}

BlockLabels == Symbolic(<<x.shape[1]>>, 0..(last.num_classes - 1), "Placeholder")

BlockShape == <<x.shape[1], 2 * x.shape[2], 2 * x.shape[3], last.out_channels>>

\* C5: block(x, labels, out_channels, ...) returns shape [B, 2*H, 2*W, out_channels]
\* whatever the input channel count; the residual branch x and the shortcut x_0
\* both have exactly that shape when they are added, and the graph holds the ten
\* operations of the two branches in order, with one upsampling in each branch.
C5_BlockShape ==
  last.op = "block" =>
    LET l == blockLocals(x, BlockLabels, last.out_channels, last.num_classes, "g_block1", EmptyGraph)
    IN /\ ~IsError(y.t) /\ y.t.shape = BlockShape
       /\ l.x.shape = BlockShape
       /\ l.x_0.shape = BlockShape
       /\ NodeOps(y.g.nodes) =
            <<"ConditionalBatchNorm", "Relu", "ResizeNearestNeighbor", "conv2d",
              "ConditionalBatchNorm", "Relu", "conv2d", "ResizeNearestNeighbor", "conv2d", "Add">>

C5_Witness ==
  /\ last.op = "block" /\ last.out_channels = 2
  /\ x.shape = <<1, 1, 2, 3>>
  /\ y.t.shape = <<1, 2, 4, 2>>

\* C6: usample and usample_tpu compute the same function: both results have
\* shape [B, 2*H, 2*W, C], their element [b, i, j, c] is x[b, i div 2, j div 2, c],
\* and the two agree on every input.
C6_UsampleAgree ==
  last.op \in {"usample", "usample_tpu"} =>
    /\ ~IsError(y.t) /\ IsBoxUpscale(y.t, x, 2)
    /\ LET a == usample(x, EmptyGraph).t
           b == usample_tpu(x, EmptyGraph).t
       IN a.shape = b.shape /\ \A k \in 0..(Prod(a.shape) - 1) : a.data[k] = b.data[k]

C6_Witness ==
  /\ last.op = "usample"
  /\ x.shape = <<1, 2, 2, 1>> /\ x.data[0] # x.data[1] /\ x.data[0] # x.data[2]
  /\ y.t.shape = <<1, 4, 4, 1>>

\* C7: upscale(x, 1) returns x itself and adds no operation to the graph.
C7_UpscaleOne ==
  (last.op = "upscale" /\ last.n = 1) => y.t = x /\ y.g = EmptyGraph

C7_Witness ==
  /\ last.op = "upscale" /\ last.n = 1
  /\ x.shape = <<2, 1, 1, 2>> /\ y.t = x /\ y.g.nodes = <<>>

\* C8: every element of the tensor generator returns lies in [-1, 1] (in
\* hundredths, -100..100): the returned tensor is the output of tanh, which is
\* the last operation the call adds to the graph.
C8_OutputRange ==
  pc = "done" =>
    /\ \A v \in act.vals : -100 <= v /\ v <= 100
    /\ act.op = "Tanh"
    /\ g.nodes[Len(g.nodes)].op = "Tanh"

C8_Witness ==
  /\ pc = "done" /\ 100 \in act.vals /\ -100 \in act.vals /\ 46 \in act.vals

SameAsFirst == gf_dim = first.gf_dim /\ num_classes = first.num_classes

\* C9 as stated: a second or later call with the gf_dim and num_classes of the
\* first call returns, having reused every variable and created none.
C9_Original ==
  (calls >= 2 /\ SameAsFirst) => pc # "raised" /\ g.vars = firstVars

\* C9: after the first call the variable store never changes again, and a second
\* or later call with the gf_dim, num_classes and noise width of the first call
\* returns, having reused every variable and created none.
C9_Idempotent ==
  calls >= 2 =>
    /\ g.vars = firstVars
    /\ (SameAsFirst /\ zs.shape[2] = first.noise) => pc # "raised"

C9_Witness ==
  /\ calls = 2 /\ pc = "done" /\ SameAsFirst /\ zs.shape[2] = first.noise
  /\ g.vars = firstVars /\ Cardinality(g.vars) = 28
  /\ Len(g.nodes) = 2 * mark

====
